---------------------------- MODULE Spec2Model ----------------------------
(***************************************************************************)
(* Model of torrent_finder_by_hash.py: main() selects the list of hex      *)
(* info-hashes, scan_dht_for_info_hashes() creates one DHT session, waits  *)
(* for it to settle and then, hash by hash in input order, issues          *)
(* dht_get_peers and polls the session's alert queue for 30 seconds,       *)
(* collecting the peers of every get_peers reply alert into a Python set.  *)
(* The session (libtorrent) is the environment: it posts alerts into the   *)
(* queue at any time while it exists.                                      *)
(*                                                                         *)
(* Strings that the program inspects character by character (the hex       *)
(* hashes) are sequences of one-character strings; strings it only passes  *)
(* on are TLA+ strings.  Time is counted in whole seconds; only sleep()    *)
(* lets time pass.                                                         *)
(***************************************************************************)
EXTENDS Integers, Sequences, FiniteSets, TLC

\* ------------------------------------------------------------------ bounds
MaxAlerts == 2         \* alerts the session posts in one run

\* ------------------------------------------------------- program constants
ScanSeconds == 30      \* while time.time() - start_time < 30
PollSeconds == 1       \* time.sleep(1)
SettleSeconds == 10    \* time.sleep(10)
Sha1Size == 20         \* lt.sha1_hash holds 20 bytes

\* ------------------------------------------------------------- characters
HexChars == <<"0","1","2","3","4","5","6","7","8","9",
              "a","b","c","d","e","f","A","B","C","D","E","F">>

\* Strings are ASCII.  The ASCII whitespace characters that have no escape
\* in a TLA+ string (code points 11 and 28 to 31):
VT == ""
FS == ""
GS == ""
RS == ""
US == ""

\* The ASCII whitespace that bytes.fromhex skips.
Whitespace == {" ", "\t", "\n", "\r", "\f", VT}

\* The ASCII characters str.strip() removes (str.isspace).
StrWhitespace == Whitespace \cup {FS, GS, RS, US}

\* The value of a hexadecimal digit, 16 for any other character.
DigitValue(c) ==
    IF \E i \in 1..Len(HexChars) : HexChars[i] = c
    THEN LET i == CHOOSE j \in 1..Len(HexChars) : HexChars[j] = c
         IN  IF i <= 16 THEN i - 1 ELSE i - 7
    ELSE 16

RECURSIVE Rep(_, _)
Rep(s, n) == IF n = 0 THEN <<>> ELSE s \o Rep(s, n - 1)

RECURSIVE LStrip(_)
LStrip(cs) ==
    IF cs # <<>> /\ Head(cs) \in StrWhitespace THEN LStrip(Tail(cs)) ELSE cs

RECURSIVE RStrip(_)
RStrip(cs) ==
    IF cs # <<>> /\ cs[Len(cs)] \in StrWhitespace
    THEN RStrip(SubSeq(cs, 1, Len(cs) - 1)) ELSE cs

\* str.strip()
Strip(cs) == RStrip(LStrip(cs))

RECURSIVE FromHexAt(_, _, _)
\* bytes.fromhex: whitespace is skipped before each byte, every byte is two
\* hexadecimal digits; anything else raises ValueError.
FromHexAt(cs, i, acc) ==
    IF i > Len(cs) THEN [raised |-> FALSE, bytes |-> acc]
    ELSE IF cs[i] \in Whitespace THEN FromHexAt(cs, i + 1, acc)
    ELSE IF DigitValue(cs[i]) >= 16 THEN [raised |-> TRUE, bytes |-> <<>>]
    ELSE IF i + 1 > Len(cs) \/ DigitValue(cs[i + 1]) >= 16
         THEN [raised |-> TRUE, bytes |-> <<>>]
    ELSE FromHexAt(cs, i + 2,
                   Append(acc, DigitValue(cs[i]) * 16 + DigitValue(cs[i + 1])))

FromHex(cs) == FromHexAt(cs, 1, <<>>)

\* lt.sha1_hash(bytes): a 20-byte string is taken as the digest.  What the
\* binding does with a string of another length depends on the libtorrent
\* build (it raises, or it reads 20 bytes from a shorter buffer), so both
\* outcomes are possible: an exception, or a digest whose missing bytes
\* are arbitrary (here any one filler byte).
Sha1Outcomes(bytes) ==
    IF Len(bytes) = Sha1Size THEN {[raised |-> FALSE, hash |-> bytes]}
    ELSE {[raised |-> TRUE, hash |-> <<>>]} \cup
         {[raised |-> FALSE,
           hash |-> [i \in 1..Sha1Size |->
                        IF i <= Len(bytes) THEN bytes[i] ELSE fill]] :
            fill \in {0, 255}}

\* A conversion that never raises: what is no hex string gives the zero
\* digest.
HexToSha1Lenient(hex_hash) ==
    LET b == FromHex(hex_hash)
    IN  IF b.raised \/ Len(b.bytes) # Sha1Size
        THEN {[raised |-> FALSE, hash |-> [i \in 1..Sha1Size |-> 0]]}
        ELSE {[raised |-> FALSE, hash |-> b.bytes]}

\* hex_to_sha1_hash: the outcomes of converting one hex string.
hex_to_sha1_hash(hex_hash) ==
    LET b == FromHex(hex_hash)
    IN  IF b.raised THEN {[raised |-> TRUE, hash |-> <<>>]}
        ELSE Sha1Outcomes(b.bytes)

\* ------------------------------------------------------------ Python set
\* A set() of at most four elements is CPython's initial table of 8 slots
\* (no resize below 5 entries); iteration visits the slots in index order.
Empty == <<>>

Slots == 0..7

SetNew == [i \in Slots |-> Empty]

SetElems(table) == {table[i] : i \in Slots} \ {Empty}

RECURSIVE LookSlot(_, _, _, _)
\* The slot at which the probe sequence of a key ends: the slot holding the
\* key, or the first unused slot.  With 8 slots there are no linear probes:
\* perturb >>= 5; i = (i * 5 + 1 + perturb) & mask.
LookSlot(table, key, i, perturb) ==
    IF table[i] = Empty \/ table[i] = key THEN i
    ELSE LookSlot(table, key, (i * 5 + 1 + (perturb \div 32)) % 8,
                  perturb \div 32)

\* peer in peers
SetContains(table, key, h) == table[LookSlot(table, key, h % 8, h)] = key

\* peers.add(peer)
SetAdd(table, key, h) ==
    [table EXCEPT ![LookSlot(table, key, h % 8, h)] = key]

RECURSIVE SetIterFrom(_, _)
SetIterFrom(table, i) ==
    IF i > 7 THEN <<>>
    ELSE IF table[i] = Empty THEN SetIterFrom(table, i + 1)
    ELSE <<table[i]>> \o SetIterFrom(table, i + 1)

\* for peer in peers
SetIter(table) == SetIterFrom(table, 0)

\* ------------------------------------------------------------- endpoints
\* The endpoints the DHT can report.
Peers == {<<"10.0.0.1", 6881>>, <<"10.0.0.2", 51413>>}

\* hash((ip, port)) is a 64-bit value that depends on the interpreter's
\* string hash seed: every run has its own assignment of hash values to
\* endpoints.  What a hash value decides in a table of 8 slots is its first
\* slot and where a colliding key goes next; the values 0 and 3 give every
\* placement of two endpoints: apart in either order, or colliding with
\* the later key in a higher slot (0: slot 0, then 1) or in a lower one
\* (3: slot 3, then 0).
TupleHashes == [Peers -> {0, 3}]

\* f"{peer[0]}:{peer[1]}"
FormatPeer(peer) == peer[1] \o ":" \o ToString(peer[2])

\* [f"{peer[0]}:{peer[1]}" for peer in peers]
PeerStrings(table) ==
    LET it == SetIter(table) IN [i \in 1..Len(it) |-> FormatPeer(it[i])]

RECURSIVE AddPeers(_, _, _)
\* for peer in alert.peers(): if peer in peers: continue; peers.add(peer)
AddPeers(table, list, h) ==
    IF list = <<>> THEN table
    ELSE IF SetContains(table, Head(list), h[Head(list)])
         THEN AddPeers(table, Tail(list), h)
    ELSE AddPeers(SetAdd(table, Head(list), h[Head(list)]), Tail(list), h)

ReplyType == "dht_get_peers_reply_alert"

RECURSIVE ConsumeAlertsWrongType(_, _, _)
\* The type test the wrong way round: the replies are the alerts skipped.
ConsumeAlertsWrongType(table, alerts, h) ==
    IF alerts = <<>> THEN table
    ELSE IF Head(alerts).type = ReplyType
         THEN ConsumeAlertsWrongType(table, Tail(alerts), h)
    ELSE ConsumeAlertsWrongType(AddPeers(table, Head(alerts).peers, h),
                                Tail(alerts), h)

RECURSIVE ConsumeAlerts(_, _, _)
\* for alert in alerts: skip what is no get_peers reply, add the peers of
\* every reply (whatever info-hash the reply is for).
ConsumeAlerts(table, alerts, h) ==
    IF alerts = <<>> THEN table
    ELSE IF Head(alerts).type # ReplyType
         THEN ConsumeAlerts(table, Tail(alerts), h)
    ELSE ConsumeAlerts(AddPeers(table, Head(alerts).peers, h),
                       Tail(alerts), h)

\* ------------------------------------------------------- result document
DateKey == <<"date_crawling">>

Two(n) == IF n < 10 THEN "0" \o ToString(n) ELSE ToString(n)

\* datetime.isoformat() of the instant t seconds after 1970-01-01T00:00:00
\* (whole seconds, within the first day).
IsoFormat(t) ==
    "1970-01-01T" \o Two((t \div 3600) % 24) \o ":" \o Two((t \div 60) % 60)
        \o ":" \o Two(t % 60)

DictKeys(d) == {d[i][1] : i \in 1..Len(d)}

DictGet(d, k) == d[CHOOSE i \in 1..Len(d) : d[i][1] = k][2]

\* A dict that only takes a hash that found peers.
DictSetNonEmpty(d, k, v) ==
    IF v = <<>> THEN d
    ELSE IF k \in DictKeys(d)
    THEN [i \in 1..Len(d) |-> IF d[i][1] = k THEN <<k, v>> ELSE d[i]]
    ELSE Append(d, <<k, v>>)

\* d[k] = v on a dict, which keeps its keys in insertion order.
DictSet(d, k, v) ==
    IF k \in DictKeys(d)
    THEN [i \in 1..Len(d) |-> IF d[i][1] = k THEN <<k, v>> ELSE d[i]]
    ELSE Append(d, <<k, v>>)

\* The characters of a key that json.dump (ensure_ascii) writes escaped;
\* printable ASCII is written as it is.
JsonEscapes ==
    [c \in (StrWhitespace \ {" "}) \cup {"\"", "\\"} |->
        CASE c = "\"" -> "\\\""
          [] c = "\\" -> "\\\\"
          [] c = "\t" -> "\\t"
          [] c = "\n" -> "\\n"
          [] c = "\r" -> "\\r"
          [] c = "\f" -> "\\f"
          [] c = VT -> "\\u000b"
          [] c = FS -> "\\u001c"
          [] c = GS -> "\\u001d"
          [] c = RS -> "\\u001e"
          [] c = US -> "\\u001f"]

RECURSIVE JsonString(_)
JsonString(cs) ==
    IF cs = <<>> THEN ""
    ELSE (IF Head(cs) \in DOMAIN JsonEscapes THEN JsonEscapes[Head(cs)]
          ELSE Head(cs)) \o JsonString(Tail(cs))

\* json's iterencode with indent=4 yields the document in chunks, which
\* json.dump writes to the file one by one.
JsonListChunks(list) ==
    IF list = <<>> THEN <<"[]">>
    ELSE [i \in 1..Len(list) |->
            (IF i = 1 THEN "[\n        " ELSE ",\n        ")
                \o "\"" \o list[i] \o "\""]
         \o <<"\n    ", "]">>

JsonEntryChunks(kv) ==
    <<"\"" \o JsonString(kv[1]) \o "\"", ": ">>
        \o (IF kv[1] = DateKey THEN <<"\"" \o kv[2] \o "\"">>
            ELSE JsonListChunks(kv[2]))

RECURSIVE JsonItemsChunks(_, _)
JsonItemsChunks(d, i) ==
    IF i > Len(d) THEN <<>>
    ELSE (IF i = 1 THEN <<>> ELSE <<",\n    ">>)
         \o JsonEntryChunks(d[i]) \o JsonItemsChunks(d, i + 1)

JsonChunks(d) ==
    IF d = <<>> THEN <<"{}">>
    ELSE <<"{", "\n    ">> \o JsonItemsChunks(d, 1) \o <<"\n", "}">>

RECURSIVE Concat(_)
\* The text in a file after the chunks were written to it.
Concat(chunks) ==
    IF chunks = <<>> THEN "" ELSE Head(chunks) \o Concat(Tail(chunks))

\* json.dump(results, res_file, indent=4)
JsonDump(d) == Concat(JsonChunks(d))

\* ------------------------------------------------------------------ inputs
HashA == Rep(<<"a">>, 40)
HashB == Rep(<<"b">>, 40)
\* twenty "aa" bytes separated by single whitespace characters: spaces, a
\* tab and a vertical tab (59 characters)
HashSpaced ==
    Rep(<<"a", "a", " ">>, 17) \o <<"a", "a", "\t", "a", "a", VT, "a", "a">>
HashBadChar == Rep(<<"g">>, 40)
HashOddLen == Rep(<<"a">>, 39)

Line(cs) == cs \o <<"\n">>

\* The hash files on disk: f.readlines() of each.
HashFiles ==
    [two |-> <<Line(HashA), Line(HashB)>>,
     bad |-> <<Line(HashA), Line(HashBadChar), Line(HashB)>>,
     spaced |-> <<Line(<<FS, " ">> \o HashSpaced \o <<US>>)>>]

NoOption == [hash |-> <<>>, hash_file |-> <<>>, output |-> <<>>]

\* The command lines considered: each option is absent (<<>>) or given once.
CommandLines ==
    { NoOption,
      [NoOption EXCEPT !.hash = <<HashA>>],
      [NoOption EXCEPT !.hash = <<HashA>>, !.output = <<"">>],
      [NoOption EXCEPT !.hash = <<HashOddLen>>, !.hash_file = <<"two">>],
      [NoOption EXCEPT !.hash = << <<>> >>, !.output = <<"res.json">>],
      [NoOption EXCEPT !.hash_file = <<"two">>, !.output = <<"res.json">>],
      [NoOption EXCEPT !.hash_file = <<"bad">>],
      [NoOption EXCEPT !.hash = << <<>> >>, !.hash_file = <<"spaced">>] }

\* ------------------------------------------------------------------- state
VARIABLES
    argv,            \* the command line
    pc,              \* the main thread's position
    torrent_hashes,  \* the list handed to scan_dht_for_info_hashes
    idx,             \* the for loop's position in torrent_hashes (from 1)
    target_hash,     \* lt.sha1_hash of the hash being scanned
    ses,             \* the DHT session: routers, alert queue
    now,             \* time.time(), in seconds
    start_time,
    peers,           \* the set of the hash being scanned (its slot table)
    peer_hash,       \* this run's hash((ip, port))
    results,         \* the dict, as the list of its items
    out_file,        \* the output file: <<>> (none) or <<[path, text]>>
    stdout,          \* the messages of main and "Scan stopped."
    log,             \* history: one record per dht_get_peers call
    runs             \* the two runs compared for reproducibility

vars == <<argv, pc, torrent_hashes, idx, target_hash, ses, now, start_time,
          peers, peer_hash, results, out_file, stdout, log, runs>>

NoSession == [exists |-> FALSE, routers |-> <<>>, alerts |-> <<>>,
              posted |-> 0]

NoRun == [hash |-> [p \in Peers |-> 0], peers |-> SetNew, doc |-> ""]

\* An --output without its default.
ArgsOutputNoDefault(a) == IF a.output = <<>> THEN "" ELSE a.output[1]

\* parser.parse_args(): --output defaults to "output.json".
ArgsOutput(a) == IF a.output = <<>> THEN "output.json" ELSE a.output[1]

\* if args.hash: (None and "" are both false)
HashGiven(a) == a.hash # <<>> /\ a.hash[1] # <<>>

\* elif args.hash_file:
HashFileGiven(a) == a.hash_file # <<>> /\ a.hash_file[1] # ""

\* if not args.output:
OutputMissing(a) == ArgsOutput(a) = ""

\* [line.strip() for line in f.readlines()]
ReadHashFile(name) ==
    LET lines == HashFiles[name] IN [i \in 1..Len(lines) |-> Strip(lines[i])]

\* A window of twice the length.
WindowOpenTwice(t, start) == t - start < 2 * ScanSeconds

\* while time.time() - start_time < 30
WindowOpen(t, start) == t - start < ScanSeconds

\* A loop that steps over every other hash.
AfterHashSkip(i, n) == i + 2

\* for torrent_hash in torrent_hashes: the position after position i of a
\* list of n hashes.
AfterHash(i, n) == i + 1

Init ==
    /\ argv \in CommandLines
    /\ pc = "main"
    /\ torrent_hashes = <<>>
    /\ idx = 1
    /\ target_hash = <<>>
    /\ ses = NoSession
    /\ now = 0
    /\ start_time = 0
    /\ peers = SetNew
    /\ peer_hash \in TupleHashes
    /\ results = <<>>
    /\ out_file = <<>>
    /\ stdout = <<>>
    /\ log = <<>>
    /\ runs = [r \in {1, 2} |-> NoRun]

\* ------------------------------------------------------------ main thread
\* main, lines 79 and 83: the two error messages.
NoHashMessage ==
    "Error: No hash or hash file provided! "
        \o "Use --hash <hash_str> or --hash-file <filepath>"

NoOutputMessage == "Error: No output file provided! Use --output <file>.json"

\* main, lines 71-84: choose the hash list or print an error and return.
SelectHashes ==
    /\ pc = "main"
    /\ IF HashGiven(argv) \/ HashFileGiven(argv)
       THEN /\ torrent_hashes' = IF HashGiven(argv) THEN <<argv.hash[1]>>
                                 ELSE ReadHashFile(argv.hash_file[1])
            /\ IF OutputMissing(argv)
               THEN /\ pc' = "exit"
                    /\ stdout' = Append(stdout, NoOutputMessage)
               ELSE /\ pc' = "scan"
                    /\ stdout' = stdout
       ELSE /\ torrent_hashes' = torrent_hashes
            /\ pc' = "exit"
            /\ stdout' = Append(stdout, NoHashMessage)
    /\ UNCHANGED <<argv, idx, target_hash, ses, now, start_time, peers,
                   peer_hash, results, out_file, log, runs>>

\* scan_dht_for_info_hashes, lines 18-28: the session and its routers.
CreateSession ==
    /\ pc = "scan"
    /\ ses' = [NoSession EXCEPT
                 !.exists = TRUE,
                 !.routers = <<"router.bittorrent.com",
                               "dht.transmissionbt.com",
                               "router.utorrent.com">>]
    /\ pc' = "settle"
    /\ UNCHANGED <<argv, torrent_hashes, idx, target_hash, now, start_time,
                   peers, peer_hash, results, out_file, stdout, log, runs>>

\* lines 30-35: time.sleep(10), then the dict with its timestamp.
Settle ==
    /\ pc = "settle"
    /\ now' = now + SettleSeconds
    /\ results' = << <<DateKey, IsoFormat(now')>> >>
    /\ pc' = "for"
    /\ UNCHANGED <<argv, torrent_hashes, idx, target_hash, ses, start_time,
                   peers, peer_hash, out_file, stdout, log, runs>>

\* Leaving scan_dht_for_info_hashes, by return or by exception: its locals
\* (the session with its queue, the set, the loop's variables) are gone.
LeaveScan ==
    /\ ses' = NoSession
    /\ idx' = 1
    /\ target_hash' = <<>>
    /\ start_time' = 0
    /\ peers' = SetNew

\* lines 37-44: the next hash is converted (an exception of the conversion
\* is not caught by "except KeyboardInterrupt" and leaves main), its lookup
\* is started and its window opens; after the last hash the function
\* returns (line 63) and main goes on to write the document.
ForNext ==
    /\ pc = "for"
    /\ IF idx > Len(torrent_hashes)
       THEN /\ pc' = "dump"
            /\ LeaveScan
            /\ log' = log
       ELSE \E conv \in hex_to_sha1_hash(torrent_hashes[idx]) :
              IF conv.raised
              THEN /\ pc' = "raised"
                   /\ LeaveScan
                   /\ log' = log
              ELSE /\ target_hash' = conv.hash
                   /\ log' = Append(log, [hash |-> torrent_hashes[idx],
                                          target |-> conv.hash,
                                          position |-> idx,
                                          all |-> {}, own |-> {},
                                          found |-> {}, elapsed |-> 0,
                                          status |-> "open"])
                   /\ peers' = SetNew
                   /\ start_time' = now
                   /\ pc' = "while"
                   /\ UNCHANGED <<ses, idx>>
    /\ UNCHANGED <<argv, torrent_hashes, now, peer_hash, results, out_file,
                   stdout, runs>>

\* line 45: the window's condition.
WhileCheck ==
    /\ pc = "while"
    /\ pc' = IF WindowOpen(now, start_time) THEN "pop" ELSE "record"
    /\ UNCHANGED <<argv, torrent_hashes, idx, target_hash, ses, now,
                   start_time, peers, peer_hash, results, out_file, stdout,
                   log, runs>>

\* The peers carried by the get_peers replies among the alerts whose
\* info-hash is one of the wanted ones.
ReplyPeers(alerts, wanted) ==
    UNION {{alerts[i].peers[j] : j \in 1..Len(alerts[i].peers)} :
             i \in {k \in 1..Len(alerts) :
                      /\ alerts[k].type = ReplyType
                      /\ alerts[k].info_hash \in wanted}}

AlertHashes(alerts) == {alerts[i].info_hash : i \in 1..Len(alerts)}

\* lines 46-54: take the whole queue and add the peers of its replies.
PopAlerts ==
    /\ pc = "pop"
    /\ ses' = [ses EXCEPT !.alerts = <<>>]
    /\ peers' = ConsumeAlerts(peers, ses.alerts, peer_hash)
    /\ log' = [log EXCEPT
                 ![Len(log)].all =
                     @ \cup ReplyPeers(ses.alerts, AlertHashes(ses.alerts)),
                 ![Len(log)].own =
                     @ \cup ReplyPeers(ses.alerts, {target_hash}),
                 ![Len(log)].found = SetElems(peers')]
    /\ pc' = "sleep"
    /\ UNCHANGED <<argv, torrent_hashes, idx, target_hash, now, start_time,
                   peer_hash, results, out_file, stdout, runs>>

\* line 55: time.sleep(1)
Sleep ==
    /\ pc = "sleep"
    /\ now' = now + PollSeconds
    /\ pc' = "while"
    /\ UNCHANGED <<argv, torrent_hashes, idx, target_hash, ses, start_time,
                   peers, peer_hash, results, out_file, stdout, log, runs>>

\* lines 57-58: the window's peers go into the dict under the hex string.
Record ==
    /\ pc = "record"
    /\ results' = DictSet(results, torrent_hashes[idx], PeerStrings(peers))
    /\ log' = [log EXCEPT ![Len(log)].status = "recorded",
                          ![Len(log)].elapsed = now - start_time]
    /\ idx' = AfterHash(idx, Len(torrent_hashes))
    /\ pc' = "for"
    /\ UNCHANGED <<argv, torrent_hashes, target_hash, ses, now, start_time,
                   peers, peer_hash, out_file, stdout, runs>>

InTry == {"for", "while", "pop", "sleep", "record"}

\* line 60: Ctrl-C inside the try block ends the loop and is caught.
Interrupt ==
    /\ pc \in InTry
    /\ log' = IF pc = "for" THEN log
              ELSE [log EXCEPT ![Len(log)].status = "interrupted",
                               ![Len(log)].elapsed = now - start_time]
    /\ pc' = "except"
    /\ UNCHANGED <<argv, torrent_hashes, idx, target_hash, ses, now,
                   start_time, peers, peer_hash, results, out_file, stdout,
                   runs>>

\* lines 61-63: the handler prints and the function returns the dict as it
\* is.
ScanStopped ==
    /\ pc = "except"
    /\ stdout' = Append(stdout, "Scan stopped.")
    /\ pc' = "dump"
    /\ LeaveScan
    /\ UNCHANGED <<argv, torrent_hashes, now, peer_hash, results, out_file,
                   log, runs>>

\* A KeyboardInterrupt that nothing catches leaves main: the process ends
\* and its objects are gone; what it wrote stays.
Die ==
    /\ pc' = "killed"
    /\ LeaveScan
    /\ results' = <<>>

\* Ctrl-C before the try block (lines 18-35: session set-up, the settle
\* sleep at any second of it, the dict) is not caught.
InterruptEarly ==
    /\ pc \in {"scan", "settle"}
    /\ Die
    /\ IF pc = "settle" THEN \E t \in 0..SettleSeconds : now' = now + t
       ELSE now' = now
    /\ UNCHANGED <<argv, torrent_hashes, peer_hash, out_file, stdout, log,
                   runs>>

\* Ctrl-C after the try block: in the handler (line 61) or at the return
\* after the last hash (line 63).
InterruptLate ==
    /\ pc = "except" \/ (pc = "for" /\ idx > Len(torrent_hashes))
    /\ Die
    /\ UNCHANGED <<argv, torrent_hashes, now, peer_hash, out_file, stdout,
                   log, runs>>

\* Ctrl-C in main (lines 67-84, 88-91), before or after a print has
\* written its message (lines 79, 83, 91).  While json.dump is writing, the
\* file keeps the chunks written so far (the with statement closes it).
InterruptMain ==
    /\ pc \in {"main", "exit", "dump", "write", "confirm", "done"}
    /\ Die
    /\ IF pc = "write"
       THEN \E k \in 0..Len(JsonChunks(results)) :
              out_file' = <<[out_file[1] EXCEPT
                               !.text = Concat(SubSeq(JsonChunks(results),
                                                      1, k))]>>
       ELSE out_file' = out_file
    /\ UNCHANGED <<argv, torrent_hashes, now, peer_hash, stdout, log, runs>>

\* main, line 88: open(args.output, "w") creates or truncates the file.
OpenOutput ==
    /\ pc = "dump"
    /\ out_file' = <<[path |-> ArgsOutput(argv), text |-> ""]>>
    /\ pc' = "write"
    /\ UNCHANGED <<argv, torrent_hashes, idx, target_hash, ses, now,
                   start_time, peers, peer_hash, results, stdout, log, runs>>

\* main, line 89 and the end of the with block: every chunk is written and
\* the file is closed.
Dump ==
    /\ pc = "write"
    /\ out_file' = <<[out_file[1] EXCEPT !.text = JsonDump(results)]>>
    /\ pc' = "confirm"
    /\ UNCHANGED <<argv, torrent_hashes, idx, target_hash, ses, now,
                   start_time, peers, peer_hash, results, stdout, log, runs>>

\* main, line 91
Confirm ==
    /\ pc = "confirm"
    /\ stdout' = Append(stdout, "Results saved to " \o ArgsOutput(argv) \o ".")
    /\ pc' = "done"
    /\ UNCHANGED <<argv, torrent_hashes, idx, target_hash, ses, now,
                   start_time, peers, peer_hash, results, out_file, log,
                   runs>>

\* ------------------------------------------------------------ the session
\* The lists a reply's peers() can return.
PeerLists ==
    {<<>>} \cup {<<p>> : p \in Peers}
           \cup {<<pq[1], pq[2]>> : pq \in {x \in Peers \X Peers : x[1] # x[2]}}

\* The session runs beside the main thread and posts alerts at any time.
\* It posts a get_peers reply alert for one of the lookups it was asked
\* for; a lookup keeps running after the main thread has moved on.
PostReply ==
    /\ ses.exists /\ ses.posted < MaxAlerts
    /\ \E t \in {log[i].target : i \in 1..Len(log)}, l \in PeerLists :
         ses' = [ses EXCEPT
                   !.alerts = Append(@, [type |-> ReplyType, info_hash |-> t,
                                         peers |-> l]),
                   !.posted = @ + 1]
    /\ UNCHANGED <<argv, pc, torrent_hashes, idx, target_hash, now,
                   start_time, peers, peer_hash, results, out_file, stdout,
                   log, runs>>

\* Any other alert (alert_mask is all_categories).
PostOther ==
    /\ ses.exists /\ ses.posted < MaxAlerts
    /\ ses' = [ses EXCEPT
                 !.alerts = Append(@, [type |-> "dht_log_alert",
                                       info_hash |-> <<>>, peers |-> <<>>]),
                 !.posted = @ + 1]
    /\ UNCHANGED <<argv, pc, torrent_hashes, idx, target_hash, now,
                   start_time, peers, peer_hash, results, out_file, stdout,
                   log, runs>>

MainStep ==
    \/ SelectHashes \/ CreateSession \/ Settle \/ ForNext \/ WhileCheck
    \/ PopAlerts \/ Sleep \/ Record \/ ScanStopped \/ OpenOutput \/ Dump
    \/ Confirm

Next ==
    \/ SelectHashes \/ CreateSession \/ Settle \/ ForNext \/ WhileCheck
    \/ PopAlerts \/ Sleep \/ Record \/ ScanStopped \/ OpenOutput \/ Dump
    \/ Confirm
    \/ Interrupt \/ InterruptEarly \/ InterruptLate \/ InterruptMain
    \/ PostReply \/ PostOther

Spec == Init /\ [][Next]_vars

\* The session never delivers a get_peers reply; the main thread keeps
\* running (a Python thread that can take a step takes it).
NextQuiet ==
    \/ SelectHashes \/ CreateSession \/ Settle \/ ForNext \/ WhileCheck
    \/ PopAlerts \/ Sleep \/ Record \/ ScanStopped \/ OpenOutput \/ Dump
    \/ Confirm
    \/ Interrupt \/ InterruptEarly \/ InterruptLate \/ InterruptMain
    \/ PostOther

QuietSpec == Init /\ [][NextQuiet]_vars /\ WF_vars(MainStep)

\* ------------------------------------------------- two runs, side by side
\* Two runs of the program that scan HashA, each with its own hash seed and
\* its own order of discovery (lines 43-57), and write their documents
\* (lines 88-89) with the same date_crawling.
ReproInit ==
    /\ argv = [NoOption EXCEPT !.hash = <<HashA>>]
    /\ pc = "compare"
    /\ torrent_hashes = <<HashA>>
    /\ idx = 1
    /\ target_hash = <<>>
    /\ ses = NoSession
    /\ now = SettleSeconds
    /\ start_time = 0
    /\ peers = SetNew
    /\ peer_hash = [p \in Peers |-> 0]
    /\ results = <<>>
    /\ out_file = <<>>
    /\ stdout = <<>>
    /\ log = <<>>
    /\ \E h1 \in TupleHashes, h2 \in TupleHashes :
         runs = [r \in {1, 2} |->
                   [NoRun EXCEPT !.hash = IF r = 1 THEN h1 ELSE h2]]

ReproRest ==
    UNCHANGED <<argv, pc, torrent_hashes, idx, target_hash, ses, now,
                start_time, peers, peer_hash, results, out_file, stdout, log>>

\* One run consumes a reply: lines 50-54.
ReproFind(r) ==
    /\ runs[r].doc = ""
    /\ \E l \in PeerLists :
         runs' = [runs EXCEPT
                    ![r].peers = AddPeers(@, l, runs[r].hash)]
    /\ ReproRest

\* One run finishes: line 57 and json.dump.
ReproEmit(r) ==
    /\ runs[r].doc = ""
    /\ runs' = [runs EXCEPT
                  ![r].doc =
                     JsonDump(DictSet(<< <<DateKey, IsoFormat(now)>> >>,
                                      HashA, PeerStrings(runs[r].peers)))]
    /\ ReproRest

ReproNext ==
    \/ ReproFind(1) \/ ReproFind(2) \/ ReproEmit(1) \/ ReproEmit(2)

ReproSpec == ReproInit /\ [][ReproNext]_vars

\* ------------------------------------------------------------------ claims
SeqSet(q) == {q[i] : i \in 1..Len(q)}

NoRepeats(q) == \A i, j \in 1..Len(q) : q[i] = q[j] => i = j

Formatted(ps) == {FormatPeer(p) : p \in ps}

Interrupted == "Scan stopped." \in SeqSet(stdout)

\* The scan has returned its dict to main.
Returned == pc \in {"dump", "write", "confirm", "done"}

\* The process, and with it the dict, exists.
Alive == pc # "killed"

\* The log entry that decides results[h]: the last recorded one for h.
LastRecorded(i) ==
    /\ log[i].status = "recorded"
    /\ \A j \in (i + 1)..Len(log) :
         log[j].status = "recorded" => log[j].hash # log[i].hash

IsHex40(cs) ==
    Len(cs) = 2 * Sha1Size /\ \A i \in 1..Len(cs) : DigitValue(cs[i]) < 16

Convertible(cs) == \E o \in hex_to_sha1_hash(cs) : ~o.raised

\* Every string a command line can hand to the scan, and the digests its
\* conversion can give.
InputHashes ==
    UNION {SeqSet(a.hash) \cup
           (IF a.hash_file = <<>> THEN {}
            ELSE SeqSet(ReadHashFile(a.hash_file[1]))) : a \in CommandLines}

HexTargets ==
    [h \in InputHashes |->
        {o.hash : o \in {x \in hex_to_sha1_hash(h) : ~x.raised}}]

\* C1: lookups are issued in input order and one at a time: the k-th
\* dht_get_peers call is for the k-th input string, every earlier call's
\* window has run its full 30 seconds and was recorded, and the keys of the
\* dict (as long as the process lives) are exactly the caller's strings of
\* the recorded windows.
C1_SequentialInOrder ==
    /\ \A i \in 1..Len(log) :
         /\ log[i].position = i
         /\ log[i].hash = torrent_hashes[i]
         /\ log[i].target \in HexTargets[torrent_hashes[i]]
    /\ \A i \in 1..(Len(log) - 1) :
         /\ log[i].status = "recorded"
         /\ log[i].elapsed >= ScanSeconds
    /\ Alive =>
         DictKeys(results) \ {DateKey} =
           {log[i].hash : i \in {k \in 1..Len(log) : log[k].status = "recorded"}}

\* The second lookup is running after the first window found peers.
C1_Witness ==
    /\ Len(log) = 2 /\ log[2].status = "open" /\ pc = "sleep"
    /\ log[1].hash = HashA /\ log[2].hash = HashB
    /\ DictGet(results, HashA) # <<>>

\* C2 (as claimed): after an interrupt the returned dict holds, for every
\* lookup that was started, the peers accumulated for it, the interrupted
\* one included.
C2_InterruptKeepsPartial ==
    (Returned /\ Interrupted) =>
        \A i \in 1..Len(log) :
            log[i].found # {} =>
                /\ log[i].hash \in DictKeys(results)
                /\ Formatted(log[i].found) \subseteq
                       SeqSet(DictGet(results, log[i].hash))

\* C3 (as claimed): every endpoint accumulated for a hash was carried by a
\* reply to that hash's own lookup.
C3_OnlyOwnReplies ==
    \A i \in 1..Len(log) : log[i].found \subseteq log[i].own

\* C4: the set of a window holds no endpoint twice and is the union of the
\* peers of the replies consumed in the window, and the list recorded for
\* a hash holds no "ip:port" twice and is that union, formatted.
C4_NoDuplicates ==
    /\ pc \in {"while", "sleep", "record"} =>
         /\ NoRepeats(SetIter(peers))
         /\ SetElems(peers) = log[Len(log)].all
    /\ \A i \in 1..Len(log) :
         (Alive /\ LastRecorded(i)) =>
             /\ NoRepeats(DictGet(results, log[i].hash))
             /\ SeqSet(DictGet(results, log[i].hash)) = Formatted(log[i].all)

\* Two replies with the same two peers were consumed, in one window, for a
\* run whose endpoints collide in the table.
C4_Witness ==
    /\ pc = "done" /\ ~Interrupted
    /\ peer_hash = [p \in Peers |-> 0]
    /\ \E i \in 1..Len(log) :
         /\ LastRecorded(i)
         /\ log[i].all = Peers
         /\ Len(DictGet(results, log[i].hash)) = 2

\* C5: after an uninterrupted scan that returns, every input hash is a key
\* of the dict and of the written document, every value is a list of
\* "ip:port" strings, and a hash whose window consumed no peer has [].
C5_EveryHashHasKey ==
    (Returned /\ ~Interrupted) =>
        /\ Len(log) = Len(torrent_hashes)
        /\ \A i \in 1..Len(torrent_hashes) :
             /\ torrent_hashes[i] \in DictKeys(results)
             /\ SeqSet(DictGet(results, torrent_hashes[i]))
                    \subseteq Formatted(Peers)
        /\ \A i \in 1..Len(log) :
             (LastRecorded(i) /\ log[i].all = {}) =>
                 DictGet(results, log[i].hash) = <<>>
        /\ pc \in {"confirm", "done"} =>
             /\ out_file # <<>>
             /\ out_file[1].text = JsonDump(results)

\* Two hashes were scanned; one got no peer, the other got some.
C5_Witness ==
    /\ pc = "done" /\ ~Interrupted
    /\ Len(torrent_hashes) = 2
    /\ DictGet(results, HashA) = <<>>
    /\ DictGet(results, HashB) # <<>>

WindowBound ==
    /\ pc = "record" => now - start_time <= ScanSeconds + PollSeconds
    /\ \A i \in 1..Len(log) :
         log[i].status = "recorded" =>
             /\ log[i].elapsed <= ScanSeconds + PollSeconds
             /\ log[i].found = {}
             /\ Alive => DictGet(results, log[i].hash) = <<>>

Terminated == pc \in {"done", "exit", "raised", "killed"}

\* C6: when no reply is ever delivered, every window ends within 30 s plus
\* one 1 s poll with no peer, and the program comes to its end.
C6_Deadline == []WindowBound /\ <>Terminated

\* Two windows ran to their deadline without a reply.
C6_Witness ==
    /\ pc = "done" /\ ~Interrupted /\ Len(log) = 2
    /\ \A i \in 1..2 : log[i].status = "recorded" /\ log[i].elapsed = ScanSeconds

\* C7 (as claimed): dht_get_peers is only ever issued for a string of 40
\* hexadecimal digits.
C7_OnlyValidHex == \A i \in 1..Len(log) : IsHex40(log[i].hash)

NoHashOption(a) ==
    /\ a.hash = <<>> \/ a.hash = << <<>> >>
    /\ a.hash_file = <<>> \/ a.hash_file = <<"">>

Confirmation == "Results saved to " \o ArgsOutput(argv) \o "."

\* The message of the error exit a command line takes.
ErrorMessage(a) ==
    IF HashGiven(a) \/ HashFileGiven(a) THEN NoOutputMessage
    ELSE NoHashMessage

\* The error exit: no session, no scan, no file, nothing printed but the
\* error message, which is out when main returns.
UsageError ==
    /\ pc \in {"main", "exit", "killed"}
    /\ out_file = <<>>
    /\ ~ses.exists /\ results = <<>> /\ log = <<>>
    /\ stdout \in {<<>>, <<ErrorMessage(argv)>>}
    /\ pc = "main" => stdout = <<>>
    /\ pc = "exit" => stdout = <<ErrorMessage(argv)>>

Saved(path) == "Results saved to " \o path \o "."

\* No error exit; the only file is the one at the path, opened after the
\* scan has returned and complete when main goes on to confirm; the
\* confirmation is the last thing main prints.
WritesDocument(path) ==
    /\ pc # "exit"
    /\ NoHashMessage \notin SeqSet(stdout)
    /\ NoOutputMessage \notin SeqSet(stdout)
    /\ out_file # <<>> => out_file[1].path = path
    /\ pc \notin {"write", "confirm", "done", "killed"} => out_file = <<>>
    /\ pc = "write" => out_file = <<[path |-> path, text |-> ""]>>
    /\ pc \in {"confirm", "done"} =>
         out_file = <<[path |-> path, text |-> JsonDump(results)]>>
    /\ pc \notin {"done", "killed"} => Saved(path) \notin SeqSet(stdout)
    /\ pc = "done" => stdout[Len(stdout)] = Saved(path)

\* The confirmation is printed when the whole document is in the file, and
\* the file stays as it is from then on.
ConfirmsAfterWriting(path) ==
    /\ (Saved(path) \notin SeqSet(stdout) /\ Saved(path) \in SeqSet(stdout'))
         => /\ out_file = <<[path |-> path, text |-> JsonDump(results)]>>
            /\ out_file' = out_file
    /\ Saved(path) \in SeqSet(stdout) => out_file' = out_file

\* The process is ended by an exception on the error exit, or after the
\* scan has returned.
KilledInMain ==
    /\ pc \in {"main", "exit", "dump", "write", "confirm", "done"}
    /\ pc' = "killed"

ClaimedError ==
    NoHashOption(argv) \/ argv.output = <<>> \/ argv.output = <<"">>

\* C8 (as claimed): without a hash or hash file, or without an output path
\* on the command line, main prints an error and returns with no session
\* and no file; every other run that completes the scan writes the
\* document to the output path and then prints the confirmation.
C8_AsClaimed ==
    /\ [](ClaimedError => (UsageError /\ pc # "killed"))
    /\ [](~ClaimedError => WritesDocument(argv.output[1]))
    /\ [][/\ ~ClaimedError => ConfirmsAfterWriting(argv.output[1])
          /\ (~ClaimedError /\ pc # "main") => ~KilledInMain]_vars

ActualError == NoHashOption(argv) \/ argv.output = <<"">>

\* The output path: the one given, output.json when none is given.
OutputPath == IF argv.output = <<>> THEN "output.json" ELSE argv.output[1]

\* C8 (amended): the error exit is taken without a hash or hash file, or
\* with an empty output path: no session, no file, nothing printed but the
\* error message; a command line without --output writes to output.json;
\* every other run writes no file but the one at the output path, after
\* the scan, and prints the confirmation only when the whole document is
\* in it; a KeyboardInterrupt in main ends the run at any point of this,
\* before or after the message.
C8_ExitBehaviour ==
    /\ [](ActualError => UsageError)
    /\ [](~ActualError => WritesDocument(OutputPath))
    /\ [][~ActualError => ConfirmsAfterWriting(OutputPath)]_vars

\* A run without --output has written output.json and confirmed it.
C8_Witness ==
    /\ pc = "done" /\ argv.output = <<>>
    /\ out_file # <<>> /\ out_file[1].path = "output.json"
    /\ stdout[Len(stdout)] = "Results saved to output.json."

\* C9 (as claimed): two runs that end with the same set of endpoints and
\* the same date_crawling write the same document.
C9_Reproducible ==
    (/\ runs[1].doc # "" /\ runs[2].doc # ""
     /\ SetElems(runs[1].peers) = SetElems(runs[2].peers))
        => runs[1].doc = runs[2].doc

\* C10: when the conversion of the hash at position i raises, the session
\* was set up and every earlier hash was scanned to its deadline and
\* recorded, nothing after position i was looked up, nothing is returned or
\* written; and a scan that returns uninterrupted met no such hash.
C10_MalformedHashAborts ==
    /\ pc = "raised" =>
         /\ Len(log) < Len(torrent_hashes)
         /\ ~Convertible(torrent_hashes[Len(log) + 1])
         /\ now >= SettleSeconds + ScanSeconds * Len(log)
         /\ results # <<>> /\ results[1][1] = DateKey
         /\ \A j \in 1..Len(log) :
              /\ log[j].position = j
              /\ log[j].status = "recorded"
              /\ log[j].elapsed >= ScanSeconds
              /\ torrent_hashes[j] \in DictKeys(results)
         /\ out_file = <<>>
         /\ Confirmation \notin SeqSet(stdout)
    /\ (Returned /\ ~Interrupted) =>
         \A i \in 1..Len(torrent_hashes) : FromHex(torrent_hashes[i]).raised = FALSE

\* The second line of a file is malformed: the first hash was scanned and
\* recorded, then the exception left main.
C10_Witness ==
    /\ pc = "raised" /\ Len(log) = 1 /\ Len(torrent_hashes) = 3
    /\ HashA \in DictKeys(results)
    /\ out_file = <<>>
=============================================================================
